---------------------------- MODULE Spec2Model ----------------------------
(***************************************************************************)
(* Model of ExcelFillPDF.py: main() hands a DataFrame to                   *)
(* fill_pdf_with_data, which produces one filled PDF per row.              *)
(*                                                                         *)
(* Text that the program transforms (cell values, field values, output    *)
(* names) is a sequence of one-character strings, so that str(), strip(),  *)
(* lower(), strftime() and the f-strings are computed.  Column names and   *)
(* PDF field identifiers are only ever compared, and stay TLA+ strings.    *)
(***************************************************************************)
EXTENDS Integers, Sequences, FiniteSets, TLC

\* Largest number of rows of the DataFrame.
MaxRows == 3

---------------------------------------------------------------------------
(* Text helpers                                                            *)

DigitChars == <<"0", "1", "2", "3", "4", "5", "6", "7", "8", "9">>

\* Characters str.strip() removes.
Whitespace == {" ", "\t", "\n"}

\* str.lower() on one character.
UpperToLower ==
  [A |-> "a", B |-> "b", C |-> "c", D |-> "d", E |-> "e", F |-> "f", G |-> "g",
   H |-> "h", I |-> "i", J |-> "j", K |-> "k", L |-> "l", M |-> "m", N |-> "n",
   O |-> "o", P |-> "p", Q |-> "q", R |-> "r", S |-> "s", T |-> "t", U |-> "u",
   V |-> "v", W |-> "w", X |-> "x", Y |-> "y", Z |-> "z"]

Lower(s) ==
  [k \in 1..Len(s) |-> IF s[k] \in DOMAIN UpperToLower THEN UpperToLower[s[k]] ELSE s[k]]

RECURSIVE LStrip(_)
LStrip(s) ==
  IF s # <<>> /\ Head(s) \in Whitespace THEN LStrip(Tail(s)) ELSE s

RECURSIVE RStrip(_)
RStrip(s) ==
  IF s # <<>> /\ s[Len(s)] \in Whitespace THEN RStrip(SubSeq(s, 1, Len(s) - 1)) ELSE s

Strip(s) == RStrip(LStrip(s))

\* str(n) of a non-negative int.
RECURSIVE Decimal(_)
Decimal(n) ==
  IF n < 10 THEN <<DigitChars[n + 1]>>
  ELSE Decimal(n \div 10) \o <<DigitChars[(n % 10) + 1]>>

IsDigit(c) == \E d \in 1..10 : DigitChars[d] = c

DigitVal(c) == (CHOOSE d \in 1..10 : DigitChars[d] = c) - 1

---------------------------------------------------------------------------
(* Cell values of the DataFrame                                            *)

\* A cell is empty (NaN / NaT), a string, or an integer.
NaN == [kind |-> "nan", s |-> <<>>, n |-> 0]
StrCell(s) == [kind |-> "str", s |-> s, n |-> 0]
IntCell(n) == [kind |-> "int", s |-> <<>>, n |-> n]

\* pd.isnull(value)
IsNull(v) == v.kind = "nan"

\* str(value); str(float('nan')) is 'nan'.
Str(v) ==
  CASE v.kind = "nan" -> <<"n", "a", "n">>
    [] v.kind = "int" -> Decimal(v.n)
    [] OTHER -> v.s

\* pd.to_datetime(value) on the cells drawn here: an ISO YYYY-MM-DD string
\* parses, any other string raises.
DateParses(v) ==
  /\ v.kind = "str"
  /\ Len(v.s) = 10
  /\ v.s[5] = "-" /\ v.s[8] = "-"
  /\ \A k \in {1, 2, 3, 4, 6, 7, 9, 10} : IsDigit(v.s[k])
  /\ 10 * DigitVal(v.s[6]) + DigitVal(v.s[7]) \in 1..12
  /\ 10 * DigitVal(v.s[9]) + DigitVal(v.s[10]) \in 1..31

\* pd.to_datetime(value).strftime('%m/%d/%Y')
FormatDate(v) ==
  <<v.s[6], v.s[7], "/", v.s[9], v.s[10], "/", v.s[1], v.s[2], v.s[3], v.s[4]>>

---------------------------------------------------------------------------
(* The constant mapping tables                                             *)

\* FIELD_MAPPING, in dict order: <<Excel column, PDF field name>>.
FIELD_MAPPING ==
  << <<"Name(s)", "f1_01[0]">>,
     <<"Identifying number", "f1_02[0]">>,
     <<"Year", "f1_03[0]">>,
     <<"Make", "f1_04[0]">>,
     <<"Model", "f1_05[0]">>,
     <<"VIN", "f1_06[0]">>,
     <<"Date in Service", "f1_07[0]">> >>

Checked1 == <<"/", "1">>
Checked2 == <<"/", "2">>
Unchecked == <<>>
Yes == <<"y", "e", "s">>
No == <<"n", "o">>

\* CHECKBOX_MAPPINGS, in dict order: <<Excel column, options>>; options maps
\* an option key to its 'fields' dict.
CHECKBOX_MAPPINGS ==
  << <<"more than $25,000?",
       (Yes :> (("c1_1[0]" :> Checked1) @@ ("c1_1[1]" :> Unchecked))) @@
       (No :> (("c1_1[0]" :> Unchecked) @@ ("c1_1[1]" :> Checked2)))>>,
     <<"new clean vehicle?",
       (Yes :> (("c1_2[0]" :> Checked1) @@ ("c1_2[1]" :> Unchecked))) @@
       (No :> (("c1_2[0]" :> Unchecked) @@ ("c1_2[1]" :> Checked2)))>> >>

DATE_FIELDS == {"Date in Service"}

---------------------------------------------------------------------------
(* Inputs: the DataFrame read from the spreadsheet and the PDF template    *)

AllColumns ==
  {"Name(s)", "Identifying number", "Year", "Make", "Model", "VIN",
   "Date in Service", "more than $25,000?", "new clean vehicle?", "filename"}

\* The column sets a spreadsheet is drawn with (df.columns).
ColumnChoices ==
  { AllColumns,
    AllColumns \ {"filename"},
    {"Name(s)", "more than $25,000?", "filename"},
    AllColumns \ {"Name(s)", "Date in Service", "more than $25,000?"} }

RecordA ==
  [c \in AllColumns |->
     CASE c = "Name(s)" -> StrCell(<<"A", "l">>)
       [] c = "Year" -> IntCell(2023)
       [] c = "Date in Service" -> StrCell(<<"2", "0", "2", "3", "-", "0", "4", "-", "1", "5">>)
       [] c = "more than $25,000?" -> StrCell(<<"Y", "e", "s">>)
       [] c = "new clean vehicle?" -> StrCell(<<" ", "n", "o", " ">>)
       [] c = "filename" -> StrCell(<<"a">>)
       [] OTHER -> StrCell(<<"K">>)]

RecordB ==
  [c \in AllColumns |->
     CASE c = "more than $25,000?" -> StrCell(<<"m", "a", "y", "b", "e">>)
       [] c = "filename" -> StrCell(<<"a">>)
       [] OTHER -> NaN]

RecordC ==
  [c \in AllColumns |->
     CASE c = "Name(s)" -> StrCell(<<"B", "o">>)
       [] c = "Year" -> IntCell(7)
       [] c = "Date in Service" -> StrCell(<<"n", "/", "a">>)
       [] c = "more than $25,000?" -> StrCell(<<"\t", "N", "O", "\n">>)
       [] c = "new clean vehicle?" -> StrCell(<<"Y", "E", "S">>)
       [] c = "filename" -> StrCell(<<"b">>)
       [] OTHER -> NaN]

RecordD ==
  [c \in AllColumns |->
     CASE c = "Name(s)" -> StrCell(<<" ">>)
       [] c = "Year" -> IntCell(2024)
       [] c = "Date in Service" -> StrCell(<<"2", "0", "2", "4", "-", "1", "2", "-", "0", "1">>)
       [] c = "more than $25,000?" -> NaN
       [] c = "new clean vehicle?" -> StrCell(<<"y", " ", "e", "s">>)
       [] c = "filename" -> NaN
       [] OTHER -> StrCell(<<"K">>)]

\* The rows a spreadsheet is drawn from.
Records == {RecordA, RecordB, RecordC, RecordD}

\* The tables pd.read_excel can hand over: columns from ColumnChoices, up to
\* MaxRows rows, each row holding a cell for every column of the table.
Tables ==
  UNION { UNION { { [columns |-> cols,
                     rows |-> [k \in 1..n |-> [c \in cols |-> rs[k][c]]]] :
                    rs \in [1..n -> Records] } :
                  n \in 0..MaxRows } :
          cols \in ColumnChoices }

TextFields == {FIELD_MAPPING[k][2] : k \in 1..Len(FIELD_MAPPING)}
Group1 == {"c1_1[0]", "c1_1[1]"}
Group2 == {"c1_2[0]", "c1_2[1]"}

Off == <<"/", "O", "f", "f">>

\* The value a field of the blank template holds.
TemplateDefault(f) == IF f \in Group1 \cup Group2 THEN Off ELSE <<>>

\* The template documents: whether the catalog has /AcroForm, and the form
\* fields (widget annotations) of each page.
Templates ==
  { [acroform |-> TRUE,
     pages |-> <<(TextFields \ {"f1_06[0]"}) \cup Group1 \cup Group2 \cup {"f1_08[0]"}>>],
    [acroform |-> TRUE,
     pages |-> <<(TextFields \ {"f1_07[0]"}) \cup Group1, {"f1_07[0]"} \cup Group2>>],
    [acroform |-> FALSE, pages |-> <<{}>>] }

---------------------------------------------------------------------------
(* State                                                                   *)

VARIABLES
  df,            \* the DataFrame handed to fill_pdf_with_data
  template,      \* the template PDF on disk
  pc,            \* position in main / fill_pdf_with_data
  i,             \* index of the row the loop is at (0-based, df.iterrows())
  reader,        \* pypdf.PdfReader of the current iteration
  writer,        \* pypdf.PdfWriter of the current iteration
  field_values,  \* the dict field_values of the current iteration
  files,         \* files this run has created in output_folder: name -> content
  log,           \* records emitted through logging, in order
  error,         \* the step whose exception is propagating, or "none"
  stepsDone      \* history: per row, the steps that completed for it

vars ==
  <<df, template, pc, i, reader, writer, field_values, files, log, error, stepsDone>>

Steps ==
  {"LoadTemplate", "CopyStructure", "MergeFormMetadata", "ResolveFields",
   "ApplyFields", "Persist"}

NumRows == Len(df.rows)

Row == df.rows[i + 1]

EmptyDict == [k \in {} |-> <<>>]

NoReader == [open |-> FALSE, acroform |-> FALSE, pages |-> <<>>]

\* pypdf.PdfWriter(): no pages, no /AcroForm in the catalog.
NewWriter == [acroform |-> FALSE, needAppearances |-> FALSE, pages |-> <<>>]

\* pypdf.PdfReader(template): the pages with their fields at the values the
\* template file holds.
OpenTemplate ==
  [open |-> TRUE,
   acroform |-> template.acroform,
   pages |-> [p \in 1..Len(template.pages) |->
                [f \in template.pages[p] |-> TemplateDefault(f)]]]

LogRecord(level, msg, col, name) ==
  [level |-> level, msg |-> msg, row |-> i, col |-> col, name |-> name]

Warning(msg, col) == LogRecord("WARNING", msg, col, <<>>)

Init ==
  /\ df \in Tables
  /\ template \in Templates
  /\ pc = "EnsureFolder"
  /\ i = 0
  /\ reader = NoReader
  /\ writer = NewWriter
  /\ field_values = EmptyDict
  /\ files = EmptyDict
  /\ log = <<>>
  /\ error = "none"
  /\ stepsDone = [k \in 1..Len(df.rows) |-> {}]

---------------------------------------------------------------------------
(* ResolveFields: lines 162-197, the dict field_values of one row          *)

\* field_values[k] = v
Put(d, k, v) == [x \in DOMAIN d \cup {k} |-> IF x = k THEN v ELSE d[x]]

\* field_values.update(other)
Update(d, other) ==
  [x \in DOMAIN d \cup DOMAIN other |-> IF x \in DOMAIN other THEN other[x] ELSE d[x]]

\* Mutant of CoerceValue: the pd.isnull test of line 169 is missing.
CoerceValueNoNullCheck(col, v) ==
  IF col \in DATE_FIELDS
  THEN IF DateParses(v) THEN FormatDate(v) ELSE Str(v)
  ELSE Str(v)

\* Lines 168-180: the string a present cell resolves to.
CoerceValue(col, v) ==
  IF IsNull(v) THEN <<>>
  ELSE IF col \in DATE_FIELDS
       THEN IF DateParses(v) THEN FormatDate(v) ELSE Str(v)
       ELSE Str(v)

\* Line 177: the date parse raised and was caught.
DateWarning(col, v) == ~IsNull(v) /\ col \in DATE_FIELDS /\ ~DateParses(v)

\* Mutant of MissingColumn: the absent column sets an empty placeholder.
MissingColumnAsEmpty(acc, col, fld) ==
  [fv |-> Put(acc.fv, fld, <<>>),
   warns |-> Append(acc.warns, Warning("FieldNotFound", col))]

\* Lines 182-183: a mapped column the table lacks.  acc is the pair of the
\* dict and the warnings built so far.
MissingColumn(acc, col, fld) ==
  [fv |-> acc.fv, warns |-> Append(acc.warns, Warning("FieldNotFound", col))]

\* Lines 166-183: one iteration of the loop over field_mapping.
RegularField(acc, col, fld, columns, row) ==
  IF col \in columns
  THEN [fv |-> Put(acc.fv, fld, CoerceValue(col, row[col])),
        warns |-> IF DateWarning(col, row[col])
                  THEN Append(acc.warns, Warning("DateParse", col))
                  ELSE acc.warns]
  ELSE MissingColumn(acc, col, fld)

\* Mutant of NormalizeCheckbox: the cell is not trimmed.
NormalizeNoStrip(v) == Lower(Str(v))

\* Line 189: str(field_value).strip().lower()
NormalizeCheckbox(v) == Lower(Strip(Str(v)))

\* Mutant of UnrecognizedCheckbox: an unknown value is taken as 'no'.
UnrecognizedAsNo(acc, col, options) ==
  [fv |-> Update(acc.fv, options[No]),
   warns |-> Append(acc.warns, Warning("UnrecognizedCheckbox", col))]

\* Lines 194-195: a cell that names no option of the column.
UnrecognizedCheckbox(acc, col, options) ==
  [fv |-> acc.fv, warns |-> Append(acc.warns, Warning("UnrecognizedCheckbox", col))]

\* Lines 186-197: one iteration of the loop over checkbox_mappings.
CheckboxField(acc, col, options, columns, row) ==
  IF col \in columns
  THEN IF NormalizeCheckbox(row[col]) \in DOMAIN options
       THEN [fv |-> Update(acc.fv, options[NormalizeCheckbox(row[col])]),
             warns |-> acc.warns]
       ELSE UnrecognizedCheckbox(acc, col, options)
  ELSE [fv |-> acc.fv, warns |-> Append(acc.warns, Warning("CheckboxNotFound", col))]

RECURSIVE RegularLoop(_, _, _, _)
RegularLoop(acc, k, columns, row) ==
  IF k > Len(FIELD_MAPPING) THEN acc
  ELSE RegularLoop(RegularField(acc, FIELD_MAPPING[k][1], FIELD_MAPPING[k][2], columns, row),
                   k + 1, columns, row)

RECURSIVE CheckboxLoop(_, _, _, _)
CheckboxLoop(acc, k, columns, row) ==
  IF k > Len(CHECKBOX_MAPPINGS) THEN acc
  ELSE CheckboxLoop(CheckboxField(acc, CHECKBOX_MAPPINGS[k][1], CHECKBOX_MAPPINGS[k][2],
                                  columns, row),
                    k + 1, columns, row)

\* Mutant of FreshFieldValues: the dict of the previous iteration is reused.
StaleFieldValues == field_values

\* Line 163: field_values = {}
FreshFieldValues == EmptyDict

\* Lines 163-197 for one row: the dict and the warnings, in order.
ResolveRow(columns, row) ==
  CheckboxLoop(RegularLoop([fv |-> FreshFieldValues, warns |-> <<>>], 1, columns, row),
               1, columns, row)

---------------------------------------------------------------------------
(* ApplyFields and Persist helpers                                         *)

\* writer.update_page_form_field_values(page, values): the fields of that
\* page named in values take the value; other names are ignored.
UpdatePage(page, values) ==
  [f \in DOMAIN page |-> IF f \in DOMAIN values THEN values[f] ELSE page[f]]

PdfExt == <<".", "p", "d", "f">>

\* Mutant of OutputName: the fallback name uses the 0-based index.
OutputNameZeroBased(columns, row, index) ==
  IF "filename" \in columns
  THEN Str(row["filename"]) \o PdfExt
  ELSE <<"o", "u", "t", "p", "u", "t", "_">> \o Decimal(index) \o PdfExt

\* Lines 203-206: the name of the output file of the row with label index.
OutputName(columns, row, index) ==
  IF "filename" \in columns
  THEN Str(row["filename"]) \o PdfExt
  ELSE <<"o", "u", "t", "p", "u", "t", "_">> \o Decimal(index + 1) \o PdfExt

\* Mutant of WriteFile: an existing file is left alone.
WriteFileKeepFirst(fs, name, content) ==
  IF name \in DOMAIN fs THEN fs ELSE Put(fs, name, content)

\* Lines 208-209: open(name, 'wb') creates or truncates, write fills it.
WriteFile(fs, name, content) == Put(fs, name, content)

Document == [complete |-> TRUE, row |-> i, pages |-> writer.pages]

\* What open(name, 'wb') followed by a failed write leaves behind.
Truncated == [complete |-> FALSE, row |-> i, pages |-> <<>>]

---------------------------------------------------------------------------
(* fill_pdf_with_data and main, step by step                               *)

StepDone(step) == stepsDone' = [stepsDone EXCEPT ![i + 1] = @ \cup {step}]

\* Mutant of Raise: the failure is isolated to the row and the loop goes on.
RaiseAndContinue(step) ==
  /\ pc' = "LoadTemplate"
  /\ error' = step
  /\ i' = i + 1
  /\ UNCHANGED <<df, template, reader, writer, field_values, log, stepsDone>>

\* An exception leaves the body of the loop at `step`: control goes to the
\* except clause of line 212 and nothing else changes.
Raise(step) ==
  /\ pc' = "Except"
  /\ error' = step
  /\ UNCHANGED <<df, template, i, reader, writer, field_values, log, stepsDone>>

\* Line 142.
EnsureOutputFolder ==
  /\ pc = "EnsureFolder"
  /\ pc' = "LoadTemplate"
  /\ UNCHANGED <<df, template, i, reader, writer, field_values, files, log, error,
                 stepsDone>>

\* Line 142 raising (mkdir fails): outside the try, so nothing is logged and
\* the exception goes straight to main.
EnsureOutputFolderFails ==
  /\ pc = "EnsureFolder"
  /\ pc' = "Raised"
  /\ error' = "EnsureFolder"
  /\ UNCHANGED <<df, template, i, reader, writer, field_values, files, log, stepsDone>>

\* Lines 145-147.
LoadTemplate ==
  /\ pc = "LoadTemplate"
  /\ i < NumRows
  /\ reader' = OpenTemplate
  /\ writer' = NewWriter
  /\ pc' = "CopyStructure"
  /\ StepDone("LoadTemplate")
  /\ UNCHANGED <<df, template, i, field_values, files, log, error>>

\* Line 146 raising: the template is missing or unreadable.
LoadTemplateFails ==
  /\ pc = "LoadTemplate"
  /\ i < NumRows
  /\ Raise("LoadTemplate")
  /\ UNCHANGED files

\* Line 145 with the rows exhausted: the function returns, and main with it.
LoopExit ==
  /\ pc = "LoadTemplate"
  /\ i = NumRows
  /\ pc' = "Exit"
  /\ UNCHANGED <<df, template, i, reader, writer, field_values, files, log, error,
                 stepsDone>>

\* Lines 150-151.
CopyStructure ==
  /\ pc = "CopyStructure"
  /\ writer' = [writer EXCEPT !.pages = reader.pages]
  /\ pc' = "MergeFormMetadata"
  /\ StepDone("CopyStructure")
  /\ UNCHANGED <<df, template, i, reader, field_values, files, log, error>>

\* Lines 150-151 raising: the page tree of the template is damaged.
CopyStructureFails ==
  /\ pc = "CopyStructure"
  /\ Raise("CopyStructure")
  /\ UNCHANGED files

\* Lines 154-160.
MergeFormMetadata ==
  /\ pc = "MergeFormMetadata"
  /\ IF reader.acroform
     THEN /\ writer' = [writer EXCEPT !.acroform = TRUE, !.needAppearances = TRUE]
          /\ log' = log
     ELSE /\ writer' = writer
          /\ log' = Append(log, Warning("NoAcroForm", ""))
  /\ pc' = "ResolveFields"
  /\ StepDone("MergeFormMetadata")
  /\ UNCHANGED <<df, template, i, reader, field_values, files, error>>

\* Lines 120-122: set_need_appearances_writer logs and re-raises.
MergeFormMetadataFails ==
  /\ pc = "MergeFormMetadata"
  /\ reader.acroform
  /\ pc' = "Except"
  /\ error' = "MergeFormMetadata"
  /\ log' = Append(log, LogRecord("ERROR", "NeedAppearances", "", <<>>))
  /\ UNCHANGED <<df, template, i, reader, writer, field_values, files, stepsDone>>

\* Lines 162-197.
ResolveFields ==
  /\ pc = "ResolveFields"
  /\ field_values' = ResolveRow(df.columns, Row).fv
  /\ log' = log \o ResolveRow(df.columns, Row).warns
  /\ pc' = "ApplyFields"
  /\ StepDone("ResolveFields")
  /\ UNCHANGED <<df, template, i, reader, writer, files, error>>

\* Line 200, the writer's catalog holding /AcroForm: the fields of the first
\* page are updated.
ApplyFields ==
  /\ pc = "ApplyFields"
  /\ writer.acroform
  /\ writer' = [writer EXCEPT !.pages[1] = UpdatePage(@, field_values)]
  /\ pc' = "Persist"
  /\ StepDone("ApplyFields")
  /\ UNCHANGED <<df, template, i, reader, field_values, files, log, error>>

\* Line 200 without /AcroForm, pypdf releases that create the dictionary
\* themselves: the page is updated as above.
ApplyFieldsNoForm ==
  /\ pc = "ApplyFields"
  /\ ~writer.acroform
  /\ writer' = [writer EXCEPT !.pages[1] = UpdatePage(@, field_values),
                              !.acroform = TRUE, !.needAppearances = TRUE]
  /\ pc' = "Persist"
  /\ StepDone("ApplyFields")
  /\ UNCHANGED <<df, template, i, reader, field_values, files, log, error>>

\* Line 200 without /AcroForm, pypdf releases that check for it:
\* PyPdfError("No /AcroForm dictionary in PdfWriter Object").
ApplyFieldsRaises ==
  /\ pc = "ApplyFields"
  /\ ~writer.acroform
  /\ Raise("ApplyFields")
  /\ UNCHANGED files

\* Lines 203-210.
Persist ==
  /\ pc = "Persist"
  /\ files' = WriteFile(files, OutputName(df.columns, Row, i), Document)
  /\ log' = Append(log, LogRecord("INFO", "Saved", "", OutputName(df.columns, Row, i)))
  /\ i' = i + 1
  /\ pc' = "LoadTemplate"
  /\ StepDone("Persist")
  /\ UNCHANGED <<df, template, reader, writer, field_values, error>>

\* Line 208 raising: the file cannot be opened for writing.
PersistOpenFails ==
  /\ pc = "Persist"
  /\ Raise("Persist")
  /\ UNCHANGED files

\* Line 209 raising: the file was opened (created or truncated) and the write
\* did not complete.
PersistWriteFails ==
  /\ pc = "Persist"
  /\ files' = WriteFile(files, OutputName(df.columns, Row, i), Truncated)
  /\ Raise("Persist")

\* Lines 212-214: log the error and re-raise.
ExceptClause ==
  /\ pc = "Except"
  /\ log' = Append(log, LogRecord("ERROR", "ErrorFillingPDF", "", <<>>))
  /\ pc' = "Raised"
  /\ UNCHANGED <<df, template, i, reader, writer, field_values, files, error, stepsDone>>

\* Lines 238-239: main swallows the exception and returns.
MainExcept ==
  /\ pc = "Raised"
  /\ pc' = "Exit"
  /\ UNCHANGED <<df, template, i, reader, writer, field_values, files, log, error,
                 stepsDone>>

Next ==
  \/ EnsureOutputFolder
  \/ EnsureOutputFolderFails
  \/ LoadTemplate
  \/ LoadTemplateFails
  \/ LoopExit
  \/ CopyStructure
  \/ CopyStructureFails
  \/ MergeFormMetadata
  \/ MergeFormMetadataFails
  \/ ResolveFields
  \/ ApplyFields
  \/ ApplyFieldsNoForm
  \/ ApplyFieldsRaises
  \/ Persist
  \/ PersistOpenFails
  \/ PersistWriteFails
  \/ ExceptClause
  \/ MainExcept

Spec == Init /\ [][Next]_vars

---------------------------------------------------------------------------
(* Vocabulary of the properties                                            *)

\* The loop is at row i and that row's field_values is complete.
Resolved == i < NumRows /\ "ResolveFields" \in stepsDone[i + 1]

\* The loop is at row i and the writer holds that row's filled document.
Applied == i < NumRows /\ "ApplyFields" \in stepsDone[i + 1]

\* An exception left the loop body while row i was processed.
Aborted == error \in Steps

\* The run returned to main's caller without any exception.
Succeeded == pc = "Exit" /\ error = "none"

SavedRecords == {k \in 1..Len(log) : log[k].msg = "Saved"}

Logged(level, msg, row, col) ==
  \E k \in 1..Len(log) :
    /\ log[k].level = level
    /\ log[k].msg = msg
    /\ log[k].row = row
    /\ log[k].col = col

\* The row at 0-based position r was written: Persist completed for it, its
\* save was logged and a complete file of that or a later row has the name.
Written(r) ==
  /\ "Persist" \in stepsDone[r + 1]
  /\ \E k \in SavedRecords :
       /\ log[k].row = r
       /\ log[k].name \in DOMAIN files
       /\ files[log[k].name].complete
       /\ files[log[k].name].row >= r

\* Trimmed and lowercased text of a cell.
Normalized(v) == Lower(Strip(Str(v)))

\* The field identifiers a checkbox column controls.
GroupFields(options) == UNION {DOMAIN options[key] : key \in DOMAIN options}

\* Every pair of the option is in the dict d.
HasOption(d, fields) == \A f \in DOMAIN fields : f \in DOMAIN d /\ d[f] = fields[f]

\* No pair of the option is in the dict d.
HasNoPairOf(d, fields) == \A f \in DOMAIN fields : ~(f \in DOMAIN d /\ d[f] = fields[f])

---------------------------------------------------------------------------
(* C1                                                                      *)

\* Once a per-row step of row i has raised, the loop is over: control is in
\* the except clause or back in main, the failed step did not complete, no
\* later row was loaded, resolved or written, exactly the rows before i have
\* a logged save, and once the exception has reached main the error record is
\* the last thing logged.
AbortStopsRun ==
  Aborted =>
    /\ pc \in {"Except", "Raised", "Exit"}
    /\ i < NumRows
    /\ error \notin stepsDone[i + 1]
    /\ \A r \in (i + 2)..NumRows : stepsDone[r] = {}
    /\ {log[k].row : k \in SavedRecords} = 0..(i - 1)
    /\ pc \in {"Raised", "Exit"} =>
         /\ log # <<>>
         /\ log[Len(log)].level = "ERROR"
         /\ log[Len(log)].msg = "ErrorFillingPDF"

\* C1 as stated: when a per-row step of row k fails the run stops there, no
\* later row is loaded, resolved or written, the error reaches main, and every
\* document written for a row before k is still on disk as written.
C1_AbortKeepsEarlierDocuments ==
  /\ AbortStopsRun
  /\ Aborted => \A r \in 0..(i - 1) : Written(r)

\* C1 amended: as above, except that a Persist of row k that fails while
\* writing leaves the file under row k's own output name truncated, also when
\* an earlier row had written its document under that name; every document
\* written under another name stays as written.
C1_AbortKeepsOtherDocuments ==
  /\ AbortStopsRun
  /\ Aborted =>
       \A r \in 0..(i - 1) :
         \/ Written(r)
         \/ /\ error = "Persist"
            /\ \E k \in SavedRecords :
                 /\ log[k].row = r
                 /\ log[k].name = OutputName(df.columns, Row, i)
                 /\ files[log[k].name] = Truncated

\* A run of three rows aborted at its second row, whose first row's document
\* is on disk, and that has returned to main's caller.
C1_Witness ==
  /\ Aborted
  /\ pc = "Exit"
  /\ NumRows = 3
  /\ i = 1
  /\ Written(0)

---------------------------------------------------------------------------
(* C2                                                                      *)

\* C2: every saved document is named <filename cell>.pdf when the table has a
\* "filename" column (an empty cell reads 'nan'), and output_<N>.pdf with N the
\* row's 1-based position otherwise; the file of that name exists.
C2_OutputNames ==
  \A k \in SavedRecords :
    LET r == log[k].row
        cell == df.rows[r + 1]["filename"]
    IN /\ log[k].name \in DOMAIN files
       /\ IF "filename" \in df.columns
          THEN log[k].name =
                 (CASE cell.kind = "str" -> cell.s
                    [] cell.kind = "int" -> Decimal(cell.n)
                    [] OTHER -> <<"n", "a", "n">>) \o <<".", "p", "d", "f">>
          ELSE /\ r + 1 <= 9
               /\ log[k].name =
                    <<"o", "u", "t", "p", "u", "t", "_", DigitChars[r + 2],
                      ".", "p", "d", "f">>

\* The third row of a table without "filename" column was saved as
\* output_3.pdf.
C2_Witness ==
  /\ "filename" \notin df.columns
  /\ \E k \in SavedRecords : log[k].row = 2
  /\ <<"o", "u", "t", "p", "u", "t", "_", "3", ".", "p", "d", "f">> \in DOMAIN files

---------------------------------------------------------------------------
(* C3                                                                      *)

\* C3: in a row's final field_values, every checkbox column of the table whose
\* trimmed, lowercased cell names an option has all pairs of that option and
\* no pair of another option of the column.
C3_RecognizedCheckbox ==
  Resolved =>
    \A k \in 1..Len(CHECKBOX_MAPPINGS) :
      LET col == CHECKBOX_MAPPINGS[k][1]
          options == CHECKBOX_MAPPINGS[k][2]
      IN (col \in df.columns /\ Normalized(Row[col]) \in DOMAIN options) =>
           /\ HasOption(field_values, options[Normalized(Row[col])])
           /\ \A other \in DOMAIN options \ {Normalized(Row[col])} :
                HasNoPairOf(field_values, options[other])

\* A row whose 'more than $25,000?' cell is "Yes" resolved to c1_1[0] = '/1'
\* and c1_1[1] = ''.
C3_Witness ==
  /\ Resolved
  /\ "more than $25,000?" \in df.columns
  /\ Row["more than $25,000?"] = StrCell(<<"Y", "e", "s">>)
  /\ "c1_1[0]" \in DOMAIN field_values /\ field_values["c1_1[0]"] = <<"/", "1">>
  /\ "c1_1[1]" \in DOMAIN field_values /\ field_values["c1_1[1]"] = <<>>

---------------------------------------------------------------------------
(* C4                                                                      *)

Unrecognized(r, k) ==
  /\ CHECKBOX_MAPPINGS[k][1] \in df.columns
  /\ Normalized(df.rows[r][CHECKBOX_MAPPINGS[k][1]]) \notin DOMAIN CHECKBOX_MAPPINGS[k][2]

\* C4: for a row whose checkbox cell names no option (an empty cell included),
\* resolving adds none of the group's fields, logs the warning, and does not
\* raise: the row goes on to ApplyFields, and it is written whenever the run
\* ends without an exception.
C4_UnrecognizedCheckbox ==
  \A r \in 1..NumRows : \A k \in 1..Len(CHECKBOX_MAPPINGS) :
    (Unrecognized(r, k) /\ "ResolveFields" \in stepsDone[r]) =>
      /\ Logged("WARNING", "UnrecognizedCheckbox", r - 1, CHECKBOX_MAPPINGS[k][1])
      /\ (r = i + 1) =>
           /\ GroupFields(CHECKBOX_MAPPINGS[k][2]) \cap DOMAIN field_values = {}
           /\ pc \in {"ApplyFields", "Persist", "Except", "Raised", "Exit"}
      /\ error # "ResolveFields"
      /\ Succeeded => Written(r - 1)

\* A run that ended without exception and wrote a row whose
\* 'more than $25,000?' cell was empty.
C4_Witness ==
  /\ Succeeded
  /\ \E r \in 1..NumRows :
       /\ "more than $25,000?" \in df.columns
       /\ df.rows[r]["more than $25,000?"] = NaN
       /\ Unrecognized(r, 1)
       /\ Written(r - 1)

---------------------------------------------------------------------------
(* C5                                                                      *)

\* C5: a FIELD_MAPPING column the table lacks leaves its target field out of
\* every row's field_values, logs the warning for the row, does not raise, and
\* the row is written whenever the run ends without an exception.
C5_MissingColumn ==
  \A m \in 1..Len(FIELD_MAPPING) :
    FIELD_MAPPING[m][1] \notin df.columns =>
      /\ Resolved => FIELD_MAPPING[m][2] \notin DOMAIN field_values
      /\ \A r \in 1..NumRows :
           "ResolveFields" \in stepsDone[r] =>
             /\ Logged("WARNING", "FieldNotFound", r - 1, FIELD_MAPPING[m][1])
             /\ Succeeded => Written(r - 1)
      /\ error # "ResolveFields"

\* A row of a table without 'Name(s)' column is resolved, f1_01[0] is no key
\* of its set, and earlier rows of that table are written.
C5_Witness ==
  /\ "Name(s)" \notin df.columns
  /\ Resolved
  /\ i = 1
  /\ "f1_01[0]" \notin DOMAIN field_values
  /\ field_values # EmptyDict
  /\ Written(0)

---------------------------------------------------------------------------
(* C6                                                                      *)

\* C6: a FIELD_MAPPING column of the table whose cell is empty in the row puts
\* the target field into field_values with the empty string, date columns
\* included.
C6_EmptyCell ==
  Resolved =>
    \A m \in 1..Len(FIELD_MAPPING) :
      (FIELD_MAPPING[m][1] \in df.columns /\ Row[FIELD_MAPPING[m][1]].kind = "nan") =>
        /\ FIELD_MAPPING[m][2] \in DOMAIN field_values
        /\ field_values[FIELD_MAPPING[m][2]] = <<>>

\* A resolved row with an empty 'Date in Service' cell and an empty 'VIN'
\* cell.
C6_Witness ==
  /\ Resolved
  /\ {"Date in Service", "VIN"} \subseteq df.columns
  /\ Row["Date in Service"] = NaN
  /\ Row["VIN"] = NaN
  /\ field_values["f1_07[0]"] = <<>>

---------------------------------------------------------------------------
(* C7                                                                      *)

\* C7: with a template without /AcroForm every row logs the warning at
\* MergeFormMetadata and ApplyFields raises nothing, so that a run in which
\* neither the template nor the output file fails writes every row.
C7_NoFormStillWritten ==
  ~template.acroform =>
    /\ \A r \in 1..NumRows :
         "MergeFormMetadata" \in stepsDone[r] => Logged("WARNING", "NoAcroForm", r - 1, "")
    /\ error # "ApplyFields"
    /\ (pc = "Exit" /\ error \notin {"EnsureFolder", "LoadTemplate", "CopyStructure",
                                      "Persist"}) =>
         \A r \in 1..NumRows : Written(r - 1)

---------------------------------------------------------------------------
(* C8                                                                      *)

\* C8: after ApplyFields every form field of the writer's document whose
\* identifier is a key of field_values holds the assigned value, on whichever
\* page it lies.
C8_AllPagesFilled ==
  Applied =>
    \A p \in 1..Len(writer.pages) : \A f \in DOMAIN writer.pages[p] :
      f \in DOMAIN field_values => writer.pages[p][f] = field_values[f]

---------------------------------------------------------------------------
(* C9                                                                      *)

\* The key f of field_values and its value come from the row `row`.
FromRow(f, value, row) ==
  \/ \E m \in 1..Len(FIELD_MAPPING) :
       /\ FIELD_MAPPING[m][2] = f
       /\ FIELD_MAPPING[m][1] \in df.columns
       /\ row[FIELD_MAPPING[m][1]].kind = "nan" => value = <<>>
       /\ (row[FIELD_MAPPING[m][1]].kind = "str" /\ FIELD_MAPPING[m][1] \notin DATE_FIELDS) =>
            value = row[FIELD_MAPPING[m][1]].s
  \/ \E k \in 1..Len(CHECKBOX_MAPPINGS) :
       LET col == CHECKBOX_MAPPINGS[k][1]
           options == CHECKBOX_MAPPINGS[k][2]
       IN /\ col \in df.columns
          /\ Normalized(row[col]) \in DOMAIN options
          /\ f \in DOMAIN options[Normalized(row[col])]
          /\ value = options[Normalized(row[col])][f]

\* C9: every pair of row k's field_values comes from row k's own cells, and
\* every field of row k's document holds either the template's value or row
\* k's assignment; nothing of an earlier row is in either.
C9_RowsIndependent ==
  /\ Resolved => \A f \in DOMAIN field_values : FromRow(f, field_values[f], Row)
  /\ (i < NumRows /\ "CopyStructure" \in stepsDone[i + 1]) =>
       \A p \in 1..Len(writer.pages) : \A f \in DOMAIN writer.pages[p] :
         \/ writer.pages[p][f] = TemplateDefault(f)
         \/ /\ Applied
            /\ f \in DOMAIN field_values
            /\ writer.pages[p][f] = field_values[f]

\* The second row is resolved, its 'more than $25,000?' cell names no option
\* while the first row's did, and c1_1[0] is no key of the second row's set.
C9_Witness ==
  /\ Resolved
  /\ i = 1
  /\ "more than $25,000?" \in df.columns
  /\ Normalized(df.rows[1]["more than $25,000?"]) = Yes
  /\ Unrecognized(2, 1)
  /\ "c1_1[0]" \notin DOMAIN field_values
  /\ field_values # EmptyDict

---------------------------------------------------------------------------
(* C10                                                                     *)

\* C10: saves happen in table order, one per row; two rows with one output
\* name raise and log no error, and after a run without exception each file
\* holds the document of the last row saved under its name, so there are as
\* many files as distinct names.
C10_LastRowWins ==
  /\ \A a, b \in SavedRecords : a < b => log[a].row < log[b].row
  /\ \A k \in SavedRecords : \A r \in 0..(log[k].row - 1) : \E j \in SavedRecords :
       j < k /\ log[j].row = r
  /\ Succeeded =>
       /\ {log[k].row : k \in SavedRecords} = 0..(NumRows - 1)
       /\ \A k \in 1..Len(log) :
            /\ log[k].level # "ERROR"
            /\ log[k].level = "WARNING" =>
                 log[k].msg \in {"NoAcroForm", "FieldNotFound", "DateParse",
                                 "UnrecognizedCheckbox", "CheckboxNotFound"}
       /\ DOMAIN files = {log[k].name : k \in SavedRecords}
       /\ Cardinality(DOMAIN files) = Cardinality({log[k].name : k \in SavedRecords})
       /\ \A k \in SavedRecords :
            /\ files[log[k].name].complete
            /\ \A j \in SavedRecords :
                 log[j].name = log[k].name => log[j].row <= files[log[k].name].row

\* A run of three rows without exception in which the first two rows were
\* saved under one name and the file holds the second row's document.
C10_Witness ==
  /\ Succeeded
  /\ NumRows = 3
  /\ \E a, b \in SavedRecords :
       /\ log[a].row = 0 /\ log[b].row = 1
       /\ log[a].name = log[b].name
       /\ files[log[a].name].row = 1
  /\ Cardinality(DOMAIN files) = 2

===========================================================================
